---- MODULE Spec2Model ----
(***************************************************************************)
(* State-machine model of the PL-600 quiz application: class QuizApp       *)
(* (src/unnamed/part_000) and the helpers of Utils (src/css/js/utils.js).  *)
(*                                                                         *)
(* Every handler of QuizApp is one action that covers the whole handler,   *)
(* the trailing render() included (with the answer revealed, render()      *)
(* sorts in place the stored answer and the correctAnswers of the          *)
(* multiple-choice question on display).                                   *)
(* Indices are the code's: currentIndex is 0-based, so the current         *)
(* question is questions[currentIndex + 1] in a TLA+ sequence.             *)
(*                                                                         *)
(* Left out of the state: showHints / hintLevel (presentation only) and    *)
(* the timestamps testStartTime, firstSeen, lastAttempt (no decision of    *)
(* the code reads them).                                                   *)
(***************************************************************************)
EXTENDS Integers, Sequences, FiniteSets, TLC

(***************************************************************************)
(* Bounds of the model.                                                    *)
(***************************************************************************)
\* questions in the bank of the session specifications (Spec, SpecUI)
NumQuestions == 2
\* answer checks the history records in Spec / SpecUI (all questions together)
MaxAttempts == 2
\* updateQuestionHistory calls in SpecHistory (all questions together)
MaxCalls == 7
\* questions in the bank of SpecStart (larger than the smallest count option)
PoolSize == 6
\* the largest raw percentage calculateScaledScore is called with in SpecScore
MaxRaw == 100
\* the longest array Utils.shuffle is called with in SpecShuffle
MaxLen == 4
\* the largest pool selectTestQuestions is called with in SpecExam
MaxPool == 5
\* the largest small target selectTestQuestions is called with in SpecExam
MaxTarget == 5
\* the largest correct and incorrect counts of a history in SpecClassify
MaxCount == 3
\* the number of questions of the bank in SpecStats
StatsBankSize == 4

(***************************************************************************)
(* Program constants.                                                      *)
(***************************************************************************)
\* this.questionCount = 10 in the constructor
DefaultQuestionCount == 10
\* encodes the string 'all' of questionCount (TLC cannot compare a string
\* with a number); never a real count, the options are 5, 10, 15 and 20
CountAll == 0
\* Math.floor(Math.random() * 21) + 40: the smallest exam size
MinExamSize == 40
\* ... and the largest one, 40 + 20
MaxExamSize == 60

QuestionCountOptions == {5, 10, 15, 20, CountAll}

ExamSizes == MinExamSize..MaxExamSize

Envisioning == "Perform solution envisioning and requirement analysis"

Architecture == "Architect a solution"

Implementation == "Implement the solution"

\* a category of the question data that is not one of the three official ones
OtherCategory == "Other"

getOfficialCategories == <<Envisioning, Architecture, Implementation>>

OfficialCategorySet == {getOfficialCategories[i] : i \in 1..Len(getOfficialCategories)}

\* categoryDistribution of selectTestQuestions: min and max in thousandths
categoryDistribution ==
    [c \in OfficialCategorySet |->
        IF c = Envisioning THEN [min |-> 450, max |-> 500]
        ELSE IF c = Architecture THEN [min |-> 350, max |-> 400]
        ELSE [min |-> 150, max |-> 200]]

NoQuestionsMsg == "No questions available with selected filters"

(***************************************************************************)
(* The question data (data/questions.json, loaded by loadQuestions): the   *)
(* i-th question of the bank.  Odd ids are single-choice with correct      *)
(* answer A, even ids are multiple-choice with correctAnswers listed as    *)
(* B, A (unsorted, so that the sort of checkAnswer matters).  With fewer   *)
(* than four questions no question is in the Implementation category.      *)
(***************************************************************************)
Letters == {"A", "B"}

CategoryCycle == <<Envisioning, Architecture, OtherCategory, Implementation>>

Question(i) ==
    [id |-> i,
     category |-> CategoryCycle[((i - 1) % Len(CategoryCycle)) + 1],
     isMultipleChoice |-> (i % 2 = 0),
     correctAnswers |-> IF i % 2 = 0 THEN <<"B", "A">> ELSE <<"A">>]

QuestionBank(n) == [i \in 1..n |-> Question(i)]

(***************************************************************************)
(* Utils                                                                   *)
(***************************************************************************)
Min(a, b) == IF a < b THEN a ELSE b

Max(a, b) == IF a > b THEN a ELSE b

\* Math.round(num / den) for num >= 0, den > 0: halves round up
Round(num, den) == (2 * num + den) \div (2 * den)

\* array.slice(0, n) for n >= 0
Slice(array, n) == SubSeq(array, 1, Min(n, Len(array)))

\* mutant of Swap: arr[i] is overwritten and arr[j] is left as it was
SwapOverwrite(arr, i, j) == [arr EXCEPT ![i] = arr[j]]

Swap(arr, i, j) == [arr EXCEPT ![i] = arr[j], ![j] = arr[i]]

\* The loop of Utils.shuffle from index i down (1-based: i from Len(arr) down
\* to 2, j uniformly in 1..i): the set of arrays the random choices can give.
RECURSIVE FisherYates(_, _)
FisherYates(arr, i) ==
    IF i <= 1 THEN {arr}
    ELSE UNION {FisherYates(Swap(arr, i, j), i - 1) : j \in 1..i}

\* Utils.shuffle works on a copy [...array]
shuffle(array) == FisherYates(array, Len(array))

arraysEqual(arr1, arr2) ==
    IF Len(arr1) # Len(arr2) THEN FALSE
    ELSE \A i \in 1..Len(arr1) : arr1[i] = arr2[i]

\* mutant of calculateScaledScore: the passing threshold is 0.70
calculateScaledScoreAt70(rawPercentage) ==
    IF rawPercentage = 0 THEN 0
    ELSE IF rawPercentage = 100 THEN 1000
    ELSE IF rawPercentage < 70 THEN Round(rawPercentage * 699, 70)
    ELSE 700 + Round((rawPercentage - 70) * 300, 30)

\* mutant of calculateScaledScore: the range below passing is scaled to 0-700
calculateScaledScoreTo700(rawPercentage) ==
    IF rawPercentage = 0 THEN 0
    ELSE IF rawPercentage = 100 THEN 1000
    ELSE IF rawPercentage < 65 THEN Round(rawPercentage * 700, 65)
    ELSE 700 + Round((rawPercentage - 65) * 300, 35)

\* Utils.calculateScaledScore for an integer rawPercentage >= 0.  The code
\* computes in doubles; the quotients below are never within 1/130 of a half,
\* so Math.round of the double is the rounding of the exact quotient.
calculateScaledScore(rawPercentage) ==
    IF rawPercentage = 0 THEN 0
    ELSE IF rawPercentage = 100 THEN 1000
    ELSE IF rawPercentage < 65 THEN Round(rawPercentage * 699, 65)
    ELSE 700 + Round((rawPercentage - 65) * 300, 35)

\* Array.prototype.sort() on option letters (code-unit order)
LetterRank(l) == IF l = "A" THEN 1 ELSE IF l = "B" THEN 2 ELSE 3

Sorted(letters) == SortSeq(letters, LAMBDA a, b : LetterRank(a) < LetterRank(b))

Includes(array, x) == \E i \in 1..Len(array) : array[i] = x

(***************************************************************************)
(* State                                                                   *)
(***************************************************************************)
VARIABLES
    allQuestions,        \* the validated question bank
    initDone,            \* init() has finished: loadQuestions() and the first render()
    questions,           \* the questions of the session
    currentIndex,
    userAnswers,         \* question id -> a letter (single) or array of letters (multiple)
    score,
    quizMode,            \* "practice" | "test"
    showAnswer,          \* the Answered sub-state of the current question
    quizStarted,
    selectedCategories,
    questionCount,
    questionHistory,     \* question id -> history record
    quizResults,         \* sequence of booleans, one per checkAnswer
    view,                \* what #app shows: "blank" | "setup" | "question" | "results"
    report,              \* what showResults computed, while the results are shown
    alertMsg,            \* the text of the open alert() dialog, "" when none is open
    localStorage,        \* the item pl600_questionHistory
    storageAvailable,    \* FALSE: every localStorage access throws
    call                 \* the last direct call of a helper: arguments and return value

configVars == <<quizMode, selectedCategories, questionCount>>

sessionVars == <<questions, currentIndex, userAnswers, score, showAnswer, quizStarted, quizResults>>

historyVars == <<questionHistory, localStorage>>

screenVars == <<view, report>>

envVars == <<initDone, storageAvailable, alertMsg, call>>

vars == <<allQuestions, initDone, questions, currentIndex, userAnswers, score, quizMode,
          showAnswer, quizStarted, selectedCategories, questionCount, questionHistory,
          quizResults, view, report, alertMsg, localStorage, storageAvailable, call>>

\* {} of JavaScript: the mapping with no key
EmptyMap == << >>

HasKey(map, key) == key \in DOMAIN map

Put(map, key, value) ==
    [k \in (DOMAIN map) \cup {key} |-> IF k = key THEN value ELSE map[k]]

\* no helper has been called directly
NoCall == [fn |-> "none"]

NoReport ==
    [shown |-> FALSE, isNaN |-> FALSE, correctCount |-> 0, totalQuestions |-> 0,
     rawPercentage |-> 0, scaledScore |-> 0, passed |-> FALSE]

(***************************************************************************)
(* Mastery tracker and its persistence                                     *)
(***************************************************************************)
\* localStorage.getItem gives null for a missing item
NoItem == [present |-> FALSE, entries |-> {}]

\* JSON.stringify of the history object: its key/value pairs
Stringify(history) ==
    [present |-> TRUE, entries |-> {<<id, history[id]>> : id \in DOMAIN history}]

\* JSON.parse of a stored item
Parse(item) ==
    [id \in {e[1] : e \in item.entries} |->
        (CHOOSE e \in item.entries : e[1] = id)[2]]

loadHistory(item, available) ==
    IF ~available THEN EmptyMap
    ELSE IF item.present THEN Parse(item) ELSE EmptyMap

\* mutant of saveHistory: nothing is written
saveHistoryNothing(item, history, available) == item

\* the item after saveHistory() of the given history
saveHistory(item, history, available) ==
    IF available THEN Stringify(history) ELSE item

\* mutant of NewHistory: the record starts with one attempt counted
NewHistoryCounted ==
    [attempts |-> 1, correct |-> 0, incorrect |-> 0, mastered |-> FALSE,
     retentionScore |-> 100]

\* the record a question gets on its first attempt
NewHistory ==
    [attempts |-> 0, correct |-> 0, incorrect |-> 0, mastered |-> FALSE,
     retentionScore |-> 100]

\* mutant of Attempted: an incorrect attempt takes 10 points and is not counted
AttemptedMiscounted(history, isCorrect) ==
    IF isCorrect
    THEN [attempts |-> history.attempts + 1,
          correct |-> history.correct + 1,
          incorrect |-> history.incorrect,
          mastered |-> IF history.correct + 1 >= 3 /\ history.incorrect = 0
                       THEN TRUE ELSE history.mastered,
          retentionScore |-> Min(100, history.retentionScore + 10)]
    ELSE [attempts |-> history.attempts + 1,
          correct |-> history.correct,
          incorrect |-> history.incorrect,
          mastered |-> FALSE,
          retentionScore |-> Max(0, history.retentionScore - 10)]

\* mutant of Attempted: an incorrect attempt leaves mastered as it is
AttemptedKeepsMastery(history, isCorrect) ==
    IF isCorrect
    THEN [attempts |-> history.attempts + 1,
          correct |-> history.correct + 1,
          incorrect |-> history.incorrect,
          mastered |-> IF history.correct + 1 >= 3 /\ history.incorrect = 0
                       THEN TRUE ELSE history.mastered,
          retentionScore |-> Min(100, history.retentionScore + 10)]
    ELSE [attempts |-> history.attempts + 1,
          correct |-> history.correct,
          incorrect |-> history.incorrect + 1,
          mastered |-> history.mastered,
          retentionScore |-> Max(0, history.retentionScore - 20)]

\* mutant of Attempted: the retention score is not clamped
AttemptedUnclamped(history, isCorrect) ==
    IF isCorrect
    THEN [attempts |-> history.attempts + 1,
          correct |-> history.correct + 1,
          incorrect |-> history.incorrect,
          mastered |-> IF history.correct + 1 >= 3 /\ history.incorrect = 0
                       THEN TRUE ELSE history.mastered,
          retentionScore |-> history.retentionScore + 10]
    ELSE [attempts |-> history.attempts + 1,
          correct |-> history.correct,
          incorrect |-> history.incorrect + 1,
          mastered |-> FALSE,
          retentionScore |-> history.retentionScore - 20]

\* mutant of Attempted: three correct attempts master a question whatever its
\* incorrect ones
AttemptedRegainsMastery(history, isCorrect) ==
    IF isCorrect
    THEN [attempts |-> history.attempts + 1,
          correct |-> history.correct + 1,
          incorrect |-> history.incorrect,
          mastered |-> IF history.correct + 1 >= 3 THEN TRUE ELSE history.mastered,
          retentionScore |-> Min(100, history.retentionScore + 10)]
    ELSE [attempts |-> history.attempts + 1,
          correct |-> history.correct,
          incorrect |-> history.incorrect + 1,
          mastered |-> FALSE,
          retentionScore |-> Max(0, history.retentionScore - 20)]

\* lines 104-118 of updateQuestionHistory on one record
Attempted(history, isCorrect) ==
    IF isCorrect
    THEN [attempts |-> history.attempts + 1,
          correct |-> history.correct + 1,
          incorrect |-> history.incorrect,
          mastered |-> IF history.correct + 1 >= 3 /\ history.incorrect = 0
                       THEN TRUE ELSE history.mastered,
          retentionScore |-> Min(100, history.retentionScore + 10)]
    ELSE [attempts |-> history.attempts + 1,
          correct |-> history.correct,
          incorrect |-> history.incorrect + 1,
          mastered |-> FALSE,
          retentionScore |-> Max(0, history.retentionScore - 20)]

\* the mapping after updateQuestionHistory(questionId, isCorrect)
updateQuestionHistory(map, questionId, isCorrect) ==
    Put(map, questionId,
        Attempted(IF HasKey(map, questionId) THEN map[questionId] ELSE NewHistory,
                  isCorrect))

\* mutant of getQuestionMasteryStatus: weak is checked before mastered
getQuestionMasteryStatusWeakFirst(map, questionId) ==
    IF ~HasKey(map, questionId) THEN "unseen"
    ELSE IF map[questionId].incorrect > map[questionId].correct
            \/ map[questionId].retentionScore < 50 THEN "weak"
    ELSE IF map[questionId].mastered /\ map[questionId].retentionScore >= 70 THEN "mastered"
    ELSE "learning"

getQuestionMasteryStatus(map, questionId) ==
    IF ~HasKey(map, questionId) THEN "unseen"
    ELSE IF map[questionId].mastered /\ map[questionId].retentionScore >= 70 THEN "mastered"
    ELSE IF map[questionId].incorrect > map[questionId].correct
            \/ map[questionId].retentionScore < 50 THEN "weak"
    ELSE "learning"

\* mutant of calculateMasteryStats: the switch has no case for learning
calculateMasteryStatsNoLearning(bank, map) ==
    LET count(status) ==
            Cardinality({i \in 1..Len(bank) :
                            getQuestionMasteryStatus(map, bank[i].id) = status})
    IN  [mastered |-> count("mastered"), weak |-> count("weak"),
         unseen |-> count("unseen"), learning |-> 0, total |-> Len(bank)]

\* calculateMasteryStats(), lines 142-165, of a bank and a history
calculateMasteryStats(bank, map) ==
    LET count(status) ==
            Cardinality({i \in 1..Len(bank) :
                            getQuestionMasteryStatus(map, bank[i].id) = status})
    IN  [mastered |-> count("mastered"), weak |-> count("weak"),
         unseen |-> count("unseen"), learning |-> count("learning"),
         total |-> Len(bank)]

(***************************************************************************)
(* Question selection                                                      *)
(***************************************************************************)
\* startQuiz, lines 226-233
FilterByCategory(pool, categories) ==
    IF Cardinality(categories) > 0
    THEN SelectSeq(pool, LAMBDA q : q.category \in categories)
    ELSE pool

\* mutant of targetCount: the upper end of the weight range, not its midpoint
targetCountAtMax(targetTotal, category) ==
    Round(targetTotal * categoryDistribution[category].max, 1000)

\* Math.round(targetTotal * (min + max) / 2); for every targetTotal below 180
\* the double product rounds as the exact one does
targetCount(targetTotal, category) ==
    Round(targetTotal * (categoryDistribution[category].min
                         + categoryDistribution[category].max), 2000)

\* one category's share: shuffled.slice(0, Math.min(targetCount, shuffled.length))
CategoryPicks(availableQuestions, targetTotal, category) ==
    {Slice(shuffled, Min(targetCount(targetTotal, category), Len(shuffled))) :
        shuffled \in shuffle(SelectSeq(availableQuestions,
                                       LAMBDA q : q.category = category))}

\* selectedQuestions after the loop over Object.entries(categoryDistribution)
PerCategorySelections(availableQuestions, targetTotal) ==
    {a \o b \o c :
        a \in CategoryPicks(availableQuestions, targetTotal, getOfficialCategories[1]),
        b \in CategoryPicks(availableQuestions, targetTotal, getOfficialCategories[2]),
        c \in CategoryPicks(availableQuestions, targetTotal, getOfficialCategories[3])}

\* mutant of FillShortfall: a short selection is left short
FillShortfallNone(availableQuestions, targetTotal, selectedQuestions) ==
    {selectedQuestions}

\* mutant of FillShortfall: the fill draws from the whole pool
FillShortfallFromAll(availableQuestions, targetTotal, selectedQuestions) ==
    IF Len(selectedQuestions) < targetTotal
    THEN {selectedQuestions \o Slice(unused, targetTotal - Len(selectedQuestions)) :
            unused \in shuffle(availableQuestions)}
    ELSE {selectedQuestions}

\* lines 215-220: fill up from the questions not selected yet
FillShortfall(availableQuestions, targetTotal, selectedQuestions) ==
    IF Len(selectedQuestions) < targetTotal
    THEN {selectedQuestions \o Slice(unused, targetTotal - Len(selectedQuestions)) :
            unused \in shuffle(SelectSeq(availableQuestions,
                                         LAMBDA q : ~Includes(selectedQuestions, q)))}
    ELSE {selectedQuestions}

\* the lists selectTestQuestions(availableQuestions, targetTotal) can return
selectTestQuestions(availableQuestions, targetTotal) ==
    UNION {UNION {{Slice(final, targetTotal) : final \in shuffle(filled)} :
                    filled \in FillShortfall(availableQuestions, targetTotal, selected)} :
            selected \in PerCategorySelections(availableQuestions, targetTotal)}

\* mutant of SelectPractice: the count is ignored
SelectPracticeWholePool(pool, count) == shuffle(pool)

\* startQuiz, lines 247-250
SelectPractice(pool, count) ==
    {IF count # CountAll THEN Slice(shuffled, count) ELSE shuffled :
        shuffled \in shuffle(pool)}

(***************************************************************************)
(* Rendering                                                               *)
(***************************************************************************)
\* userAnswers after renderQuestion: with the answer revealed, line 745 sorts
\* the stored answer array of a multiple-choice question in place
RenderedAnswers(answers, qs, index, revealed, started) ==
    IF started /\ revealed /\ index < Len(qs)
       /\ qs[index + 1].isMultipleChoice /\ HasKey(answers, qs[index + 1].id)
    THEN [answers EXCEPT ![qs[index + 1].id] = Sorted(@)]
    ELSE answers

\* a question list after question.correctAnswers.sort() (lines 293 and 745) on
\* the question object with the given id: the sort is in place, and
\* allQuestions and questions hold the same question objects
SortCorrectAnswers(qs, questionId) ==
    [i \in 1..Len(qs) |->
        IF qs[i].id = questionId /\ qs[i].isMultipleChoice
        THEN [qs[i] EXCEPT !.correctAnswers = Sorted(@)]
        ELSE qs[i]]

\* a question list after renderQuestion, which sorts the correct answers of
\* the question on display when the answer is revealed
RenderedQuestions(qs, current, index, revealed, started) ==
    IF started /\ revealed /\ index < Len(current)
    THEN SortCorrectAnswers(qs, current[index + 1].id)
    ELSE qs

\* render(), given the values the handler has assigned and the answers, the
\* session questions and the bank it leaves
render(answers, qs, bank) ==
    /\ view' = IF quizStarted' THEN "question" ELSE "setup"
    /\ report' = NoReport
    /\ userAnswers' = RenderedAnswers(answers, qs, currentIndex', showAnswer', quizStarted')
    /\ questions' = RenderedQuestions(qs, qs, currentIndex', showAnswer', quizStarted')
    /\ allQuestions' = RenderedQuestions(bank, qs, currentIndex', showAnswer', quizStarted')

\* the keys of the categories object of calculateCategoryScores, in insertion
\* order: the categories of the session in order of first appearance
CategoryOrder(qs) ==
    LET seen[i \in 0..Len(qs)] ==
            IF i = 0 THEN << >>
            ELSE IF Includes(seen[i - 1], qs[i].category) THEN seen[i - 1]
            ELSE Append(seen[i - 1], qs[i].category)
    IN  seen[Len(qs)]

\* calculateCategoryScores(), lines 327-347: quizResults[index] of an index
\* beyond the array is undefined and counts as not correct
calculateCategoryScores(qs, results) ==
    LET names == CategoryOrder(qs)
    IN  [k \in 1..Len(names) |->
            LET total == Cardinality({i \in 1..Len(qs) : qs[i].category = names[k]})
                correct == Cardinality({i \in 1..Len(qs) :
                                /\ qs[i].category = names[k]
                                /\ i <= Len(results)
                                /\ results[i]})
            IN  [name |-> names[k], correct |-> correct, total |-> total,
                 percentage |-> Round(correct * 100, total)]]

CountTrue(results) == Cardinality({i \in 1..Len(results) : results[i]})

\* showResults(): the numbers of lines 350-356 and the results page
showResults ==
    /\ view' = "results"
    /\ report' =
         LET correctCount == CountTrue(quizResults)
             totalQuestions == Len(questions)
             rawPercentage == Round(correctCount * 100, totalQuestions)
         IN  IF totalQuestions = 0
             THEN \* 0 / 0 is NaN, and so are the scaled score; NaN >= 700 is false
                  [NoReport EXCEPT !.shown = TRUE, !.isNaN = TRUE]
             ELSE [shown |-> TRUE, isNaN |-> FALSE, correctCount |-> correctCount,
                   totalQuestions |-> totalQuestions, rawPercentage |-> rawPercentage,
                   scaledScore |-> calculateScaledScore(rawPercentage),
                   passed |-> calculateScaledScore(rawPercentage) >= 700]

(***************************************************************************)
(* Start-up                                                                *)
(***************************************************************************)
\* the state the constructor leaves, with the given stored item
Constructed(item, available) ==
    /\ allQuestions = << >>
    /\ initDone = FALSE
    /\ questions = << >>
    /\ currentIndex = 0
    /\ userAnswers = EmptyMap
    /\ score = 0
    /\ quizMode = "practice"
    /\ showAnswer = FALSE
    /\ quizStarted = FALSE
    /\ selectedCategories = {}
    /\ questionCount = DefaultQuestionCount
    /\ questionHistory = loadHistory(item, available)
    /\ quizResults = << >>
    /\ view = "blank"
    /\ report = NoReport
    /\ alertMsg = ""
    /\ localStorage = item
    /\ storageAvailable = available
    /\ call = NoCall

\* init(): loadQuestions() delivers a bank of n valid questions, then render()
LoadQuestions(n) ==
    /\ ~initDone
    /\ initDone' = TRUE
    /\ UNCHANGED <<currentIndex, score, showAnswer, quizStarted, quizResults>>
    /\ UNCHANGED <<configVars, historyVars, storageAvailable, alertMsg, call>>
    /\ render(userAnswers, questions, QuestionBank(n))

\* the page is loaded again: the constructor runs on the stored item
Reload ==
    /\ allQuestions' = << >>
    /\ initDone' = FALSE
    /\ questions' = << >>
    /\ currentIndex' = 0
    /\ userAnswers' = EmptyMap
    /\ score' = 0
    /\ quizMode' = "practice"
    /\ showAnswer' = FALSE
    /\ quizStarted' = FALSE
    /\ selectedCategories' = {}
    /\ questionCount' = DefaultQuestionCount
    /\ questionHistory' = loadHistory(localStorage, storageAvailable)
    /\ quizResults' = << >>
    /\ view' = "blank"
    /\ report' = NoReport
    /\ alertMsg' = ""
    /\ UNCHANGED <<localStorage, storageAvailable, call>>

(***************************************************************************)
(* Configuration (renderSetup's inline handlers and toggleCategory)        *)
(***************************************************************************)
toggleCategory(category) ==
    /\ selectedCategories' =
         IF category \in selectedCategories
         THEN selectedCategories \ {category}
         ELSE selectedCategories \cup {category}
    /\ UNCHANGED <<quizMode, questionCount>>
    /\ UNCHANGED <<currentIndex, score, showAnswer, quizStarted, quizResults>>
    /\ UNCHANGED <<historyVars, envVars>>
    /\ render(userAnswers, questions, allQuestions)

\* "Select All": app.selectedCategories = new Set(app.getOfficialCategories())
SelectAllCategories ==
    /\ selectedCategories' = OfficialCategorySet
    /\ UNCHANGED <<quizMode, questionCount>>
    /\ UNCHANGED <<currentIndex, score, showAnswer, quizStarted, quizResults>>
    /\ UNCHANGED <<historyVars, envVars>>
    /\ render(userAnswers, questions, allQuestions)

\* "Clear All": app.selectedCategories.clear()
ClearCategories ==
    /\ selectedCategories' = {}
    /\ UNCHANGED <<quizMode, questionCount>>
    /\ UNCHANGED <<currentIndex, score, showAnswer, quizStarted, quizResults>>
    /\ UNCHANGED <<historyVars, envVars>>
    /\ render(userAnswers, questions, allQuestions)

\* the mode cards: app.quizMode = mode
SetQuizMode(mode) ==
    /\ quizMode' = mode
    /\ UNCHANGED <<selectedCategories, questionCount>>
    /\ UNCHANGED <<currentIndex, score, showAnswer, quizStarted, quizResults>>
    /\ UNCHANGED <<historyVars, envVars>>
    /\ render(userAnswers, questions, allQuestions)

\* the count select: app.questionCount = 'all' or parseInt(value)
SetQuestionCount(count) ==
    /\ questionCount' = count
    /\ UNCHANGED <<quizMode, selectedCategories>>
    /\ UNCHANGED <<currentIndex, score, showAnswer, quizStarted, quizResults>>
    /\ UNCHANGED <<historyVars, envVars>>
    /\ render(userAnswers, questions, allQuestions)

(***************************************************************************)
(* The session handlers                                                    *)
(***************************************************************************)
\* the lists startQuiz can choose from a non-empty filtered pool
StartSelections(filteredQuestions) ==
    IF quizMode = "test"
    THEN UNION {selectTestQuestions(filteredQuestions, size) : size \in ExamSizes}
    ELSE SelectPractice(filteredQuestions, questionCount)

\* mutant of startQuiz: the session is reset before the pool is looked at
startQuizResetsFirst ==
    LET filteredQuestions == FilterByCategory(allQuestions, selectedCategories)
    IN  IF Len(filteredQuestions) = 0
        THEN /\ alertMsg' = NoQuestionsMsg
             /\ currentIndex' = 0
             /\ score' = 0
             /\ quizResults' = << >>
             /\ showAnswer' = FALSE
             /\ userAnswers' = EmptyMap
             /\ UNCHANGED <<questions, quizStarted>>
             /\ UNCHANGED <<configVars, historyVars, screenVars>>
             /\ UNCHANGED <<allQuestions, initDone, storageAvailable, call>>
        ELSE /\ quizStarted' = TRUE
             /\ currentIndex' = 0
             /\ score' = 0
             /\ quizResults' = << >>
             /\ showAnswer' = FALSE
             /\ UNCHANGED <<configVars, historyVars, envVars>>
             /\ \E selected \in StartSelections(filteredQuestions) :
                    render(EmptyMap, selected, allQuestions)

\* mutant of startQuiz: the answers of the previous session are kept
startQuizKeepsAnswers ==
    LET filteredQuestions == FilterByCategory(allQuestions, selectedCategories)
    IN  IF Len(filteredQuestions) = 0
        THEN /\ alertMsg' = NoQuestionsMsg
             /\ UNCHANGED <<sessionVars, configVars, historyVars, screenVars>>
             /\ UNCHANGED <<allQuestions, initDone, storageAvailable, call>>
        ELSE /\ quizStarted' = TRUE
             /\ currentIndex' = 0
             /\ score' = 0
             /\ quizResults' = << >>
             /\ showAnswer' = FALSE
             /\ UNCHANGED <<configVars, historyVars, envVars>>
             /\ \E selected \in StartSelections(filteredQuestions) :
                    render(userAnswers, selected, allQuestions)

startQuiz ==
    LET filteredQuestions == FilterByCategory(allQuestions, selectedCategories)
    IN  IF Len(filteredQuestions) = 0
        THEN \* alert(...); return
             /\ alertMsg' = NoQuestionsMsg
             /\ UNCHANGED <<sessionVars, configVars, historyVars, screenVars>>
             /\ UNCHANGED <<allQuestions, initDone, storageAvailable, call>>
        ELSE /\ quizStarted' = TRUE
             /\ currentIndex' = 0
             /\ score' = 0
             /\ quizResults' = << >>
             /\ showAnswer' = FALSE
             /\ UNCHANGED <<configVars, historyVars, envVars>>
             /\ \E selected \in StartSelections(filteredQuestions) :
                    render(EmptyMap, selected, allQuestions)

\* the user closes the alert dialog; startQuiz returns
DismissAlert ==
    /\ alertMsg # ""
    /\ alertMsg' = ""
    /\ UNCHANGED <<sessionVars, configVars, historyVars, screenVars>>
    /\ UNCHANGED <<allQuestions, initDone, storageAvailable, call>>

\* this.questions[this.currentIndex] is an element of the array
HasQuestion == currentIndex < Len(questions)

\* mutant of SelectedAnswer: a letter of a multiple-choice question is always
\* appended
SelectedAnswerAppends(answers, question, optionLetter) ==
    IF question.isMultipleChoice
    THEN Append(IF HasKey(answers, question.id) THEN answers[question.id] ELSE << >>,
                optionLetter)
    ELSE optionLetter

\* userAnswers[qId] after selectAnswer(optionLetter) on the given question
SelectedAnswer(answers, question, optionLetter) ==
    IF question.isMultipleChoice
    THEN LET currentAnswers ==
                 IF HasKey(answers, question.id) THEN answers[question.id] ELSE << >>
         IN  IF Includes(currentAnswers, optionLetter)
             THEN SelectSeq(currentAnswers, LAMBDA a : a # optionLetter)
             ELSE Append(currentAnswers, optionLetter)
    ELSE optionLetter

\* mutant of selectAnswer: no early return once the answer is shown
selectAnswerUnguarded(optionLetter) ==
    IF ~HasQuestion
    THEN UNCHANGED vars
    ELSE /\ UNCHANGED <<currentIndex, score, showAnswer, quizStarted, quizResults>>
         /\ UNCHANGED <<configVars, historyVars, envVars>>
         /\ render(Put(userAnswers, questions[currentIndex + 1].id,
                       SelectedAnswer(userAnswers, questions[currentIndex + 1],
                                      optionLetter)),
                questions, allQuestions)

selectAnswer(optionLetter) ==
    IF showAnswer \/ ~HasQuestion
    THEN \* early return, or the TypeError of question.id on undefined
         UNCHANGED vars
    ELSE /\ UNCHANGED <<currentIndex, score, showAnswer, quizStarted, quizResults>>
         /\ UNCHANGED <<configVars, historyVars, envVars>>
         /\ render(Put(userAnswers, questions[currentIndex + 1].id,
                       SelectedAnswer(userAnswers, questions[currentIndex + 1],
                                      optionLetter)),
                questions, allQuestions)

\* mutant of IsCorrect: the arrays are compared as stored and as listed
IsCorrectUnsorted(answers, question) ==
    IF question.isMultipleChoice
    THEN arraysEqual(IF HasKey(answers, question.id)
                     THEN answers[question.id] ELSE << >>,
                     question.correctAnswers)
    ELSE HasKey(answers, question.id) /\ answers[question.id] = question.correctAnswers[1]

\* isCorrect of checkAnswer, lines 288-297
IsCorrect(answers, question) ==
    IF question.isMultipleChoice
    THEN arraysEqual(Sorted(IF HasKey(answers, question.id)
                            THEN answers[question.id] ELSE << >>),
                     Sorted(question.correctAnswers))
    ELSE HasKey(answers, question.id) /\ answers[question.id] = question.correctAnswers[1]

\* userAnswers after line 292: (userAnswer || []).sort() sorts a stored array in place
AnswersAfterCheck(answers, question) ==
    IF question.isMultipleChoice /\ HasKey(answers, question.id)
    THEN [answers EXCEPT ![question.id] = Sorted(@)]
    ELSE answers

\* mutant of checkAnswer: saveHistory has no try/catch, so the exception of
\* an unavailable storage ends checkAnswer inside updateQuestionHistory
checkAnswerThrowingSave ==
    IF ~HasQuestion
    THEN UNCHANGED vars
    ELSE LET question == questions[currentIndex + 1]
             isCorrect == IsCorrect(userAnswers, question)
         IN  IF ~storageAvailable
             THEN /\ questionHistory' =
                        updateQuestionHistory(questionHistory, question.id, isCorrect)
                  /\ userAnswers' = AnswersAfterCheck(userAnswers, question)
                  /\ questions' = SortCorrectAnswers(questions, question.id)
                  /\ allQuestions' = SortCorrectAnswers(allQuestions, question.id)
                  /\ UNCHANGED <<currentIndex, score, showAnswer, quizStarted, quizResults>>
                  /\ UNCHANGED <<localStorage, configVars, screenVars, envVars>>
             ELSE /\ questionHistory' =
                        updateQuestionHistory(questionHistory, question.id, isCorrect)
                  /\ localStorage' = saveHistory(localStorage, questionHistory', TRUE)
                  /\ quizResults' = Append(quizResults, isCorrect)
                  /\ score' = IF isCorrect THEN score + 1 ELSE score
                  /\ showAnswer' = TRUE
                  /\ UNCHANGED <<currentIndex, quizStarted>>
                  /\ UNCHANGED <<configVars, envVars>>
                  /\ render(AnswersAfterCheck(userAnswers, question),
                            SortCorrectAnswers(questions, question.id),
                            SortCorrectAnswers(allQuestions, question.id))

checkAnswer ==
    IF ~HasQuestion
    THEN \* TypeError of question.id on undefined, before any assignment
         UNCHANGED vars
    ELSE LET question == questions[currentIndex + 1]
             isCorrect == IsCorrect(userAnswers, question)
         IN  /\ questionHistory' = updateQuestionHistory(questionHistory, question.id, isCorrect)
             /\ localStorage' = saveHistory(localStorage, questionHistory', storageAvailable)
             /\ quizResults' = Append(quizResults, isCorrect)
             /\ score' = IF isCorrect THEN score + 1 ELSE score
             /\ showAnswer' = TRUE
             /\ UNCHANGED <<currentIndex, quizStarted>>
             /\ UNCHANGED <<configVars, envVars>>
             /\ render(AnswersAfterCheck(userAnswers, question),
                       SortCorrectAnswers(questions, question.id),
                       SortCorrectAnswers(allQuestions, question.id))

\* mutant of nextQuestion: the bound is length instead of length - 1
nextQuestionPastEnd ==
    IF currentIndex < Len(questions)
    THEN /\ currentIndex' = currentIndex + 1
         /\ showAnswer' = FALSE
         /\ UNCHANGED <<score, quizStarted, quizResults>>
         /\ UNCHANGED <<configVars, historyVars, envVars>>
         /\ render(userAnswers, questions, allQuestions)
    ELSE /\ showResults
         /\ UNCHANGED <<sessionVars, configVars, historyVars, envVars, allQuestions>>

\* mutant of nextQuestion: the answer of the question left stays shown
nextQuestionKeepsShown ==
    IF currentIndex < Len(questions) - 1
    THEN /\ currentIndex' = currentIndex + 1
         /\ UNCHANGED <<score, showAnswer, quizStarted, quizResults>>
         /\ UNCHANGED <<configVars, historyVars, envVars>>
         /\ render(userAnswers, questions, allQuestions)
    ELSE /\ showResults
         /\ UNCHANGED <<sessionVars, configVars, historyVars, envVars, allQuestions>>

nextQuestion ==
    IF currentIndex < Len(questions) - 1
    THEN /\ currentIndex' = currentIndex + 1
         /\ showAnswer' = FALSE
         /\ UNCHANGED <<score, quizStarted, quizResults>>
         /\ UNCHANGED <<configVars, historyVars, envVars>>
         /\ render(userAnswers, questions, allQuestions)
    ELSE /\ showResults
         /\ UNCHANGED <<sessionVars, configVars, historyVars, envVars, allQuestions>>

\* mutant of prevQuestion: the sub-state of the question left is kept
prevQuestionKeepsShown ==
    IF currentIndex > 0
    THEN /\ currentIndex' = currentIndex - 1
         /\ UNCHANGED <<score, showAnswer, quizStarted, quizResults>>
         /\ UNCHANGED <<configVars, historyVars, envVars>>
         /\ render(userAnswers, questions, allQuestions)
    ELSE UNCHANGED vars

prevQuestion ==
    IF currentIndex > 0
    THEN /\ currentIndex' = currentIndex - 1
         /\ showAnswer' = FALSE
         /\ UNCHANGED <<score, quizStarted, quizResults>>
         /\ UNCHANGED <<configVars, historyVars, envVars>>
         /\ render(userAnswers, questions, allQuestions)
    ELSE UNCHANGED vars

\* mutant of reviewAnswers: the review opens the session again
reviewAnswersRestarts ==
    /\ currentIndex' = 0
    /\ showAnswer' = TRUE
    /\ quizStarted' = TRUE
    /\ UNCHANGED <<score, quizResults>>
    /\ UNCHANGED <<configVars, historyVars, envVars>>
    /\ render(userAnswers, questions, allQuestions)

reviewAnswers ==
    /\ currentIndex' = 0
    /\ showAnswer' = TRUE
    /\ UNCHANGED <<score, quizStarted, quizResults>>
    /\ UNCHANGED <<configVars, historyVars, envVars>>
    /\ render(userAnswers, questions, allQuestions)

\* mutant of reset: the history in memory is discarded with the session
resetClearsHistory ==
    /\ currentIndex' = 0
    /\ score' = 0
    /\ showAnswer' = FALSE
    /\ quizStarted' = FALSE
    /\ quizResults' = << >>
    /\ questionHistory' = EmptyMap
    /\ UNCHANGED <<localStorage, configVars, envVars>>
    /\ render(EmptyMap, questions, allQuestions)

\* mutant of reset: the score survives
resetKeepsScore ==
    /\ currentIndex' = 0
    /\ showAnswer' = FALSE
    /\ quizStarted' = FALSE
    /\ quizResults' = << >>
    /\ UNCHANGED <<score, configVars, historyVars, envVars>>
    /\ render(EmptyMap, questions, allQuestions)

reset ==
    /\ currentIndex' = 0
    /\ score' = 0
    /\ showAnswer' = FALSE
    /\ quizStarted' = FALSE
    /\ quizResults' = << >>
    /\ UNCHANGED <<configVars, historyVars, envVars>>
    /\ render(EmptyMap, questions, allQuestions)

(***************************************************************************)
(* What the rendered page offers (the enabled buttons of renderSetup,      *)
(* renderQuestion and the results pages)                                   *)
(***************************************************************************)
\* renderSetup: the count select is rendered in practice mode only
CountSelectShown == view = "setup" /\ quizMode = "practice"

\* renderSetup: the start button is disabled while no category is selected
StartEnabled == view = "setup" /\ Cardinality(selectedCategories) > 0

\* renderQuestion: the option buttons are disabled once the answer is shown
OptionsEnabled == view = "question" /\ HasQuestion /\ ~showAnswer

\* renderQuestion: "Previous" is disabled on the first question
PrevEnabled == view = "question" /\ HasQuestion /\ currentIndex # 0

\* renderQuestion: "Check Answer" is rendered in practice mode while the answer
\* is hidden, and disabled while nothing is selected
CheckEnabled ==
    /\ view = "question" /\ HasQuestion
    /\ ~showAnswer /\ quizMode = "practice"
    /\ HasKey(userAnswers, questions[currentIndex + 1].id)
    /\ questions[currentIndex + 1].isMultipleChoice
         => Len(userAnswers[questions[currentIndex + 1].id]) # 0

\* renderQuestion: "Next" / "Finish" is rendered once the answer is shown, and
\* always in test mode
NextShown == view = "question" /\ HasQuestion /\ (showAnswer \/ quizMode = "test")

\* renderTestResults / renderPracticeResults: "Start New ..." and "Review Answers"
ResultsShown == view = "results"

(***************************************************************************)
(* Bounding: the number of attempts the history records                    *)
(***************************************************************************)
RECURSIVE SumAttempts(_, _)
SumAttempts(map, ids) ==
    IF ids = {} THEN 0
    ELSE LET id == CHOOSE x \in ids : TRUE
         IN  map[id].attempts + SumAttempts(map, ids \ {id})

TotalAttempts == SumAttempts(questionHistory, DOMAIN questionHistory)

(***************************************************************************)
(* Spec: the methods of app in any order, as a script can call them (app   *)
(* is a global and every handler a public method), with the category       *)
(* filter as configuration.  Mode and question count stay at their         *)
(* defaults here: no session method reads them, and for a bank of fewer    *)
(* than 5 questions startQuiz offers the same lists for every mode and     *)
(* count.  SpecUI covers the modes, SpecStart the counts.                  *)
(* An open alert() blocks the page until it is dismissed.                  *)
(***************************************************************************)
\* first run: nothing stored yet, and the storage works
Init == Constructed(NoItem, TRUE)

\* no alert() dialog is open
NoAlert == alertMsg = ""

Next ==
    \/ LoadQuestions(NumQuestions)
    \/ NoAlert /\ \E c \in OfficialCategorySet : toggleCategory(c)
    \/ NoAlert /\ SelectAllCategories
    \/ NoAlert /\ ClearCategories
    \/ NoAlert /\ startQuiz
    \/ NoAlert /\ \E l \in Letters : selectAnswer(l)
    \/ NoAlert /\ TotalAttempts < MaxAttempts /\ checkAnswer
    \/ NoAlert /\ nextQuestion
    \/ NoAlert /\ prevQuestion
    \/ NoAlert /\ reviewAnswers
    \/ NoAlert /\ reset
    \/ DismissAlert

Spec == Init /\ [][Next]_vars

(***************************************************************************)
(* SpecUI: the page as a user drives it.  A handler runs only when the     *)
(* rendered page offers its button; the page can be reloaded at any time,  *)
(* and the storage may be unavailable.                                     *)
(***************************************************************************)
\* first run: nothing stored yet; the storage works or throws
InitUI == \E available \in BOOLEAN : Constructed(NoItem, available)

NextUI ==
    \/ LoadQuestions(NumQuestions)
    \/ NoAlert /\ view = "setup" /\ \E m \in {"practice", "test"} : SetQuizMode(m)
    \/ NoAlert /\ view = "setup" /\ \E c \in OfficialCategorySet : toggleCategory(c)
    \/ NoAlert /\ view = "setup" /\ SelectAllCategories
    \/ NoAlert /\ view = "setup" /\ ClearCategories
    \/ NoAlert /\ CountSelectShown /\ \E c \in QuestionCountOptions : SetQuestionCount(c)
    \/ NoAlert /\ StartEnabled /\ startQuiz
    \/ NoAlert /\ OptionsEnabled /\ \E l \in Letters : selectAnswer(l)
    \/ NoAlert /\ PrevEnabled /\ prevQuestion
    \/ NoAlert /\ CheckEnabled /\ TotalAttempts < MaxAttempts /\ checkAnswer
    \/ NoAlert /\ NextShown /\ nextQuestion
    \/ NoAlert /\ ResultsShown /\ reset
    \/ NoAlert /\ ResultsShown /\ reviewAnswers
    \/ NoAlert /\ Reload
    \/ DismissAlert

SpecUI == InitUI /\ [][NextUI]_vars

(***************************************************************************)
(* SpecStart: the first startQuiz of a practice run on a bank of PoolSize  *)
(* questions, under every category filter and every count option the      *)
(* setup screen offers.  startQuiz reads nothing but allQuestions and the  *)
(* configuration.                                                          *)
(***************************************************************************)
NextStart ==
    \/ LoadQuestions(PoolSize)
    \/ NoAlert /\ view = "setup" /\ \E c \in OfficialCategorySet : toggleCategory(c)
    \/ NoAlert /\ view = "setup" /\ SelectAllCategories
    \/ NoAlert /\ view = "setup" /\ ClearCategories
    \/ NoAlert /\ CountSelectShown /\ \E c \in QuestionCountOptions : SetQuestionCount(c)
    \/ NoAlert /\ ~quizStarted /\ startQuiz
    \/ DismissAlert

SpecStart == Init /\ [][NextStart]_vars

(***************************************************************************)
(* SpecHistory: the mastery tracker alone, updateQuestionHistory called    *)
(* with any question id of the bank and any outcome, in any order.         *)
(***************************************************************************)
\* updateQuestionHistory(questionId, isCorrect) with its saveHistory()
recordAttempt(questionId, isCorrect) ==
    /\ questionHistory' = updateQuestionHistory(questionHistory, questionId, isCorrect)
    /\ localStorage' = saveHistory(localStorage, questionHistory', storageAvailable)
    /\ UNCHANGED <<sessionVars, configVars, screenVars, envVars, allQuestions>>

NextHistory ==
    \E id \in 1..NumQuestions, isCorrect \in BOOLEAN :
        TotalAttempts < MaxCalls /\ recordAttempt(id, isCorrect)

SpecHistory == Init /\ [][NextHistory]_vars

(***************************************************************************)
(* SpecScore: Utils.calculateScaledScore called directly with any raw      *)
(* percentage up to MaxRaw, any number of times.                           *)
(***************************************************************************)
\* the variables a direct call of a helper leaves alone
appVars == <<allQuestions, configVars, sessionVars, historyVars, screenVars,
             initDone, storageAvailable, alertMsg>>

CallScaledScore(rawPercentage) ==
    /\ call' = [fn |-> "calculateScaledScore", rawPercentage |-> rawPercentage,
                result |-> calculateScaledScore(rawPercentage)]
    /\ UNCHANGED appVars

NextScore == \E rawPercentage \in 0..MaxRaw : CallScaledScore(rawPercentage)

SpecScore == Init /\ [][NextScore]_vars

(***************************************************************************)
(* SpecShuffle: Utils.shuffle called directly, once, with any array of at  *)
(* most MaxLen items (repeated items included), under every random choice. *)
(***************************************************************************)
ShuffleItems == {"a", "b", "c"}

ShuffleInputs == UNION {[1..n -> ShuffleItems] : n \in 0..MaxLen}

\* what a call leaves: the returned array and the argument array after the
\* call; the loop works on the copy arr = [...array]
ShuffleOutcomes(array) ==
    {[result |-> arr, array |-> array] : arr \in shuffle(array)}

CallShuffle(array) ==
    /\ call = NoCall
    /\ \E outcome \in ShuffleOutcomes(array) :
            call' = [fn |-> "shuffle", input |-> array, array |-> outcome.array,
                     result |-> outcome.result]
    /\ UNCHANGED appVars

NextShuffle == \E array \in ShuffleInputs : CallShuffle(array)

SpecShuffle == Init /\ [][NextShuffle]_vars

(***************************************************************************)
(* SpecCheck: a session on one multiple-choice question with three         *)
(* options, whose correct letters are listed in any order (each letter     *)
(* once, at least one): any selection, then the answer check.              *)
(***************************************************************************)
CheckLetters == {"A", "B", "C"}

\* the arrays that list some letters of the set once each
Listings(letters) ==
    {seq \in UNION {[1..n -> letters] : n \in 0..Cardinality(letters)} :
        \A i, j \in 1..Len(seq) : i # j => seq[i] # seq[j]}

CheckBanks ==
    {<<[id |-> 1, category |-> Envisioning, isMultipleChoice |-> TRUE,
        correctAnswers |-> correct]>> : correct \in Listings(CheckLetters) \ {<< >>}}

\* init() when loadQuestions() delivers the given bank of valid questions
LoadQuestionsFrom(bank) ==
    /\ ~initDone
    /\ initDone' = TRUE
    /\ UNCHANGED <<currentIndex, score, showAnswer, quizStarted, quizResults>>
    /\ UNCHANGED <<configVars, historyVars, storageAvailable, alertMsg, call>>
    /\ render(userAnswers, questions, bank)

NextCheck ==
    \/ \E bank \in CheckBanks : LoadQuestionsFrom(bank)
    \/ NoAlert /\ ~quizStarted /\ startQuiz
    \/ NoAlert /\ \E l \in CheckLetters : selectAnswer(l)
    \/ NoAlert /\ TotalAttempts < MaxAttempts /\ checkAnswer
    \/ DismissAlert

SpecCheck == Init /\ [][NextCheck]_vars

(***************************************************************************)
(* SpecExam: selectTestQuestions called directly, once, with a pool of at   *)
(* most MaxPool questions in any categories and with a small target or an  *)
(* exam size of startQuiz.                                                 *)
(***************************************************************************)
\* a pool of e + a + i + o questions with ids 1.., grouped by category; the
\* selection shuffles every list it reads, so the order of a pool is immaterial
PoolOf(e, a, i, o) ==
    [k \in 1..(e + a + i + o) |->
        [Question(k) EXCEPT !.category =
            IF k <= e THEN Envisioning
            ELSE IF k <= e + a THEN Architecture
            ELSE IF k <= e + a + i THEN Implementation
            ELSE OtherCategory]]

ExamPools ==
    {PoolOf(n[1], n[2], n[3], n[4]) :
        n \in {m \in [1..4 -> 0..MaxPool] : m[1] + m[2] + m[3] + m[4] <= MaxPool}}

\* small targets and the middle of the 40-60 range of startQuiz
ExamTargets == (1..MaxTarget) \cup {(MinExamSize + MaxExamSize) \div 2}

CallSelectTest(availableQuestions, targetTotal) ==
    /\ call = NoCall
    /\ \E result \in selectTestQuestions(availableQuestions, targetTotal) :
            call' = [fn |-> "selectTestQuestions",
                     availableQuestions |-> availableQuestions,
                     targetTotal |-> targetTotal, result |-> result]
    /\ UNCHANGED appVars

NextExam ==
    \E availableQuestions \in ExamPools, targetTotal \in ExamTargets :
        CallSelectTest(availableQuestions, targetTotal)

SpecExam == Init /\ [][NextExam]_vars

(***************************************************************************)
(* SpecFinish: one session in which the position only moves forward:       *)
(* answers are selected and checked and nextQuestion is called, again and  *)
(* again while a question is on the page; prevQuestion, reset and a second *)
(* startQuiz are not.                                                      *)
(***************************************************************************)
NextOnPage == view = "question" /\ nextQuestion

NextFinish ==
    \/ LoadQuestions(NumQuestions)
    \/ initDone /\ ~quizStarted /\ \E c \in OfficialCategorySet : toggleCategory(c)
    \/ initDone /\ ~quizStarted /\ NoAlert /\ startQuiz
    \/ NoAlert /\ view = "question" /\ \E l \in Letters : selectAnswer(l)
    \/ NoAlert /\ view = "question" /\ TotalAttempts < MaxAttempts /\ checkAnswer
    \/ NoAlert /\ NextOnPage
    \/ DismissAlert

SpecFinish == Init /\ [][NextFinish]_vars /\ WF_vars(NoAlert /\ NextOnPage)

(***************************************************************************)
(* SpecClassify: getQuestionMasteryStatus called directly, once, on a      *)
(* question without history or with any history record: any counts up to   *)
(* MaxCount, any retention score, mastered or not.                         *)
(***************************************************************************)
RetentionScores == 0..100

HistoryRecords ==
    {[attempts |-> correct + incorrect, correct |-> correct, incorrect |-> incorrect,
      mastered |-> mastered, retentionScore |-> retentionScore] :
        correct \in 0..MaxCount, incorrect \in 0..MaxCount, mastered \in BOOLEAN,
        retentionScore \in RetentionScores}

\* the mappings the status of question 1 is asked of
ClassifyInputs == {EmptyMap} \cup {Put(EmptyMap, 1, history) : history \in HistoryRecords}

CallMasteryStatus(map) ==
    /\ call = NoCall
    /\ call' = [fn |-> "getQuestionMasteryStatus", questionHistory |-> map,
                questionId |-> 1, result |-> getQuestionMasteryStatus(map, 1)]
    /\ UNCHANGED appVars

NextClassify == \E map \in ClassifyInputs : CallMasteryStatus(map)

SpecClassify == Init /\ [][NextClassify]_vars

(***************************************************************************)
(* SpecStats: a bank of StatsBankSize questions is loaded and then the     *)
(* answer checks record attempts on any of its questions, with any         *)
(* outcome, in any order.                                                  *)
(***************************************************************************)
NextStats ==
    \/ LoadQuestions(StatsBankSize)
    \/ /\ initDone
       /\ TotalAttempts < MaxCalls
       /\ \E i \in 1..Len(allQuestions), isCorrect \in BOOLEAN :
                recordAttempt(allQuestions[i].id, isCorrect)

SpecStats == Init /\ [][NextStats]_vars

(***************************************************************************)
(* Claims                                                                  *)
(***************************************************************************)
\* the ids of the bank in the session specifications
QuestionIds == 1..NumQuestions

\* the stored answer of the current question is not its correct answer, read
\* off the data: a different or no letter (single-choice), a different set of
\* letters (multiple-choice)
StoredAnswerWrong ==
    LET question == questions[currentIndex + 1]
        stored == userAnswers[question.id]
    IN  IF ~HasKey(userAnswers, question.id) THEN TRUE
        ELSE IF question.isMultipleChoice
        THEN {stored[i] : i \in 1..Len(stored)}
                # {question.correctAnswers[i] : i \in 1..Len(question.correctAnswers)}
        ELSE stored # question.correctAnswers[1]

\* the session questions whose stored answer is the correct one
CorrectlyAnswered == {i \in 1..Len(questions) : IsCorrect(userAnswers, questions[i])}

\* C1: checkAnswer invoked while the current question is Answered (showAnswer)
\* appends nothing to results, leaves score alone and records no attempt.
C1_CheckIgnoredWhenAnswered ==
    [][(showAnswer /\ checkAnswer)
        => (quizResults' = quizResults /\ score' = score
            /\ questionHistory' = questionHistory)]_vars

\* C2: in test mode the report shown at Complete reflects the stored answers:
\* all answers correct gives raw 100, scaled 1000 and a pass, and in general
\* passed holds iff the scaled score of the rounded share of correctly
\* answered questions is at least 700.
C2_TestReportReflectsAnswers ==
    (view = "results" /\ quizMode = "test" /\ Len(questions) > 0)
        => /\ Cardinality(CorrectlyAnswered) = Len(questions)
                => (report.rawPercentage = 100 /\ report.scaledScore = 1000
                    /\ report.passed)
           /\ report.passed
                <=> calculateScaledScore(Round(100 * Cardinality(CorrectlyAnswered),
                                               Len(questions))) >= 700

\* C3: while a session is running the position index is within the question
\* list: 0 <= currentIndex < N.
C3_IndexInRange ==
    quizStarted => (0 <= currentIndex /\ currentIndex < Len(questions))

\* C3 witness: next was invoked at the last index of a two-question session
\* (the results are shown) and the index stayed at N - 1
C3_Witness ==
    /\ quizStarted /\ Len(questions) >= 2
    /\ currentIndex = Len(questions) - 1
    /\ view = "results"

C5_MasteryAfterThree ==
    /\ [](\A id \in DOMAIN questionHistory :
            questionHistory[id].incorrect = 0
                => (getQuestionMasteryStatus(questionHistory, id) = "mastered"
                    <=> questionHistory[id].correct >= 3))
    /\ [][\A id \in DOMAIN questionHistory :
            (/\ questionHistory[id].incorrect = 0
             /\ questionHistory[id].correct >= 3
             /\ recordAttempt(id, FALSE))
                => (/\ ~questionHistory'[id].mastered
                    /\ getQuestionMasteryStatus(questionHistory', id) # "mastered"
                    /\ questionHistory'[id].retentionScore >= 70)]_vars

\* C5 witness: three correct attempts, then one incorrect one
C5_Witness ==
    \E id \in DOMAIN questionHistory :
        /\ questionHistory[id].correct = 3
        /\ questionHistory[id].incorrect = 1
        /\ questionHistory[id].retentionScore = 80
        /\ getQuestionMasteryStatus(questionHistory, id) = "learning"

\* C6: the retention score stays within [0, 100]: a correct attempt sets it
\* to min(100, r + 10), an incorrect one to max(0, r - 20).
C6_RetentionInRange ==
    /\ [](\A id \in DOMAIN questionHistory :
            questionHistory[id].retentionScore \in 0..100)
    /\ [][\A id \in QuestionIds, isCorrect \in BOOLEAN :
            recordAttempt(id, isCorrect)
                => LET r == IF HasKey(questionHistory, id)
                            THEN questionHistory[id].retentionScore ELSE 100
                   IN  questionHistory'[id].retentionScore =
                        (IF isCorrect
                         THEN (IF r + 10 > 100 THEN 100 ELSE r + 10)
                         ELSE (IF r - 20 < 0 THEN 0 ELSE r - 20))]_vars

\* C6 witness: a sixth incorrect attempt in a row, the score held at 0
C6_Witness ==
    \E id \in DOMAIN questionHistory :
        /\ questionHistory[id].incorrect = 6
        /\ questionHistory[id].correct = 0
        /\ questionHistory[id].retentionScore = 0

\* C7: startQuiz on an empty filtered pool raises the "no questions
\* available" alert and leaves the session and the history as they were.
C7_EmptyPoolStartFails ==
    [][(Len(FilterByCategory(allQuestions, selectedCategories)) = 0 /\ startQuiz)
        => (/\ alertMsg' = NoQuestionsMsg
            /\ UNCHANGED <<quizStarted, questions, currentIndex, userAnswers, score,
                           quizResults, showAnswer, questionHistory>>)]_vars

\* C7 witness: the alert is open over a running session with an answer and a
\* result, the category filter selecting no question of a loaded bank
C7_Witness ==
    /\ alertMsg = NoQuestionsMsg
    /\ selectedCategories # {} /\ Len(allQuestions) > 0
    /\ quizStarted /\ Len(quizResults) > 0 /\ DOMAIN userAnswers # {}

\* C8: in practice mode startQuiz on a non-empty pool P gives min(c, |P|)
\* questions for a numeric count c and |P| for 'all', each a question of P,
\* none twice.
C8_PracticeSessionSize ==
    [][LET pool == FilterByCategory(allQuestions, selectedCategories)
       IN  (quizMode = "practice" /\ Len(pool) > 0 /\ startQuiz)
            => /\ Len(questions') =
                    (IF questionCount = CountAll THEN Len(pool)
                     ELSE IF questionCount < Len(pool) THEN questionCount
                     ELSE Len(pool))
               /\ \A i \in 1..Len(questions') :
                    \E k \in 1..Len(pool) : questions'[i] = pool[k]
               /\ \A i, j \in 1..Len(questions') :
                    i # j => questions'[i].id # questions'[j].id]_vars

\* C8 witness: a session of as many questions as the count, cut from a
\* larger pool
C8_Witness ==
    /\ quizStarted /\ questionCount # CountAll
    /\ Len(questions) = questionCount
    /\ Len(FilterByCategory(allQuestions, selectedCategories)) > questionCount

\* C9: every successful startQuiz gives a running, unanswered session on a
\* non-empty list at index 0, with no answers, score 0 and no results.
C9_StartYieldsFreshSession ==
    [][(Len(FilterByCategory(allQuestions, selectedCategories)) > 0 /\ startQuiz)
        => (/\ quizStarted' /\ view' = "question" /\ ~showAnswer'
            /\ Len(questions') > 0
            /\ currentIndex' = 0
            /\ DOMAIN userAnswers' = {}
            /\ score' = 0
            /\ quizResults' = << >>)]_vars

\* C9 witness: a fresh session while the history holds the attempts of an
\* earlier one
C9_Witness ==
    /\ quizStarted /\ view = "question" /\ ~showAnswer
    /\ quizResults = << >> /\ DOMAIN userAnswers = {}
    /\ TotalAttempts > 0

\* C10: selectAnswer never changes the index, the Answered sub-state, the
\* results, the score or the history, and changes no stored answer while the
\* current question is Answered.
C10_SelectAnswerFrame ==
    [][\A l \in Letters :
        selectAnswer(l)
            => (/\ UNCHANGED <<currentIndex, showAnswer, quizResults, score,
                               questionHistory>>
                /\ showAnswer => UNCHANGED userAnswers)]_vars

\* C10 witness: an Answered question with a stored answer, where selectAnswer
\* returns at once
C10_Witness ==
    /\ quizStarted /\ view = "question" /\ HasQuestion /\ showAnswer
    /\ HasKey(userAnswers, questions[currentIndex + 1].id)
    /\ Len(quizResults) > 0

\* C15: for a raw percentage r in [0, 100] the scaled score is below 700 when
\* r < 65 and at least 700 when r >= 65, and it is 700 at r = 65.
C15_PassAt65 ==
    (call.fn = "calculateScaledScore" /\ call.rawPercentage <= 100)
        => /\ call.rawPercentage < 65 => call.result < 700
           /\ call.rawPercentage >= 65 => call.result >= 700
           /\ call.rawPercentage = 65 => call.result = 700

\* C15 witness: the call at the threshold
C15_Witness ==
    call.fn = "calculateScaledScore" /\ call.rawPercentage = 65 /\ call.result = 700

\* C16: the scaled score is 0 at 0, 1000 at 100, within [0, 1000] on [0, 100],
\* round(r / 65 * 699) below 65 and round(700 + (r - 65) / 35 * 300) from 65
\* up, and it never decreases when r grows.
C16_ScaledScoreShape ==
    /\ []((call.fn = "calculateScaledScore" /\ call.rawPercentage <= 100)
            => /\ call.rawPercentage = 0 => call.result = 0
               /\ call.rawPercentage = 100 => call.result = 1000
               /\ call.result \in 0..1000
               /\ call.rawPercentage < 65
                    => call.result = (2 * 699 * call.rawPercentage + 65) \div 130
               /\ call.rawPercentage >= 65
                    => call.result
                        = (2 * (700 * 35 + 300 * (call.rawPercentage - 65)) + 35) \div 70)
    /\ [][(/\ call.fn = "calculateScaledScore" /\ call'.fn = "calculateScaledScore"
            /\ call.rawPercentage <= call'.rawPercentage
            /\ call'.rawPercentage <= 100)
                => call.result <= call'.result]_vars

\* C16 witness: a call just below the threshold
C16_Witness ==
    call.fn = "calculateScaledScore" /\ call.rawPercentage = 64 /\ call.result = 688


\* the number of times x occurs in a sequence
Occurrences(seq, x) == Cardinality({i \in 1..Len(seq) : seq[i] = x})

\* C17: whatever the input and the random choices, shuffle returns an array
\* of the same length with the same items as many times each, and leaves the
\* input array as it was.
C17_ShufflePermutes ==
    call.fn = "shuffle"
        => /\ Len(call.result) = Len(call.input)
           /\ \A x \in ShuffleItems :
                Occurrences(call.result, x) = Occurrences(call.input, x)
           /\ call.array = call.input

\* C17 witness: an array with a repeated item came back in another order
C17_Witness ==
    /\ call.fn = "shuffle"
    /\ call.input = <<"a", "b", "a">>
    /\ call.result = <<"a", "a", "b">>
    /\ call.array = call.input


\* the letters an array holds
LetterSet(letters) == {letters[i] : i \in 1..Len(letters)}

\* C11: the check of a multiple-choice question is correct iff the set of
\* stored letters equals the set of correct letters, whatever the order of
\* selection and of listing; a missing or extra letter, the empty selection
\* included, is incorrect.
C11_SetEquality ==
    [][(HasQuestion /\ questions[currentIndex + 1].isMultipleChoice /\ checkAnswer)
        => LET question == questions[currentIndex + 1]
               stored == IF HasKey(userAnswers, question.id)
                         THEN userAnswers[question.id] ELSE << >>
           IN  /\ Len(quizResults') = Len(quizResults) + 1
               /\ quizResults'[Len(quizResults')]
                    <=> LetterSet(stored) = LetterSet(question.correctAnswers)]_vars

\* C11 witness: a two-letter selection was checked and found correct
C11_Witness ==
    /\ quizStarted /\ showAnswer /\ HasQuestion
    /\ questions[currentIndex + 1].isMultipleChoice
    /\ HasKey(userAnswers, questions[currentIndex + 1].id)
    /\ Len(userAnswers[questions[currentIndex + 1].id]) = 2
    /\ quizResults = <<TRUE>>


(***************************************************************************)
(* Exam selection (SpecExam)                                               *)
(***************************************************************************)
SelectTestCalled == call.fn = "selectTestQuestions"

CountOf(list, category) ==
    Cardinality({k \in 1..Len(list) : list[k].category = category})

HasAllOfficial(pool) == \A c \in OfficialCategorySet : CountOf(pool, c) >= 1

\* C12 as stated: selectExam(pool, 50) with a pool containing questions in all
\* three official categories returns exactly 50 questions.
C12_ExactlyFifty ==
    (SelectTestCalled /\ call.targetTotal = 50
        /\ HasAllOfficial(call.availableQuestions))
    => Len(call.result) = 50

\* C12 amended: selectExam(pool, T) with a pool containing questions in all
\* three official categories returns exactly min(T, |pool|) questions, so
\* selectExam(pool, 50) returns 50 only from a pool of at least 50.
C12_TargetOrWholePool ==
    (SelectTestCalled /\ HasAllOfficial(call.availableQuestions))
    => Len(call.result) = Min(call.targetTotal, Len(call.availableQuestions))

\* a pool of MaxPool questions, all three official categories and another one
\* among them, asked for 50: the whole pool comes back
C12_Witness ==
    /\ SelectTestCalled
    /\ call.targetTotal = 50
    /\ HasAllOfficial(call.availableQuestions)
    /\ CountOf(call.availableQuestions, OtherCategory) >= 1
    /\ Len(call.availableQuestions) = MaxPool
    /\ Len(call.result) = MaxPool

\* round(T * midpoint_c) with the midpoints 0.475, 0.375 and 0.175 of C13
MidpointTarget(T, c) ==
    LET thousandths == IF c = Envisioning THEN 475
                       ELSE IF c = Architecture THEN 375 ELSE 175
    IN  (2 * T * thousandths + 1000) \div 2000

TargetSum(T) ==
    MidpointTarget(T, Envisioning) + MidpointTarget(T, Architecture)
        + MidpointTarget(T, Implementation)

WithinMidpointBounds(result, T) ==
    \A c \in OfficialCategorySet :
        /\ CountOf(result, c) <= MidpointTarget(T, c)
        /\ CountOf(result, c) >= MidpointTarget(T, c) - (TargetSum(T) - T)

\* C13 as stated: for selectExam(pool, T) with a pool containing questions in
\* all three official categories, the number of returned questions of each
\* official category c is at most round(T * midpoint_c) and at least
\* round(T * midpoint_c) - (sum of the rounded targets - T).
C13_MidpointBounds ==
    (SelectTestCalled /\ HasAllOfficial(call.availableQuestions))
    => WithinMidpointBounds(call.result, call.targetTotal)

\* C13 amended: the bounds hold when the pool holds at least
\* round(T * midpoint_c) questions of each official category c and the
\* rounded targets sum to at least T (every T from 2 on).
C13_MidpointBoundsOfFullPool ==
    (/\ SelectTestCalled
     /\ TargetSum(call.targetTotal) >= call.targetTotal
     /\ \A c \in OfficialCategorySet :
            CountOf(call.availableQuestions, c)
                >= MidpointTarget(call.targetTotal, c))
    => WithinMidpointBounds(call.result, call.targetTotal)

\* T = 4 has targets 2, 2, 1: five questions are selected and one of the two
\* Envisioning ones is cut off by the final slice
C13_Witness ==
    /\ SelectTestCalled
    /\ call.targetTotal = 4
    /\ TargetSum(4) = 5
    /\ \A c \in OfficialCategorySet :
            CountOf(call.availableQuestions, c) >= MidpointTarget(4, c)
    /\ CountOf(call.result, Envisioning) = MidpointTarget(4, Envisioning) - 1
    /\ Len(call.result) = 4


(***************************************************************************)
(* A failed write of the history (SpecUI)                                  *)
(***************************************************************************)
AttemptsOf(map, questionId) ==
    IF HasKey(map, questionId) THEN map[questionId].attempts ELSE 0

\* C14: when the write of the history fails during checkAnswer (the storage
\* throws), the transition still completes in full: the history in memory
\* records the attempt, the correctness is appended to the results, the score
\* is incremented iff the answer is correct, the question becomes Answered and
\* is rendered, nothing is stored and no error dialog or abort results.
C14_FailedSaveSwallowed ==
    [][(~storageAvailable /\ HasQuestion /\ checkAnswer)
        => LET question == questions[currentIndex + 1]
               isCorrect == IsCorrect(userAnswers, question)
           IN  /\ AttemptsOf(questionHistory', question.id)
                     = AttemptsOf(questionHistory, question.id) + 1
               /\ questionHistory'[question.id].correct
                     + questionHistory'[question.id].incorrect
                     = AttemptsOf(questionHistory', question.id)
               /\ quizResults' = Append(quizResults, isCorrect)
               /\ score' = score + (IF isCorrect THEN 1 ELSE 0)
               /\ showAnswer'
               /\ view' = "question"
               /\ localStorage' = localStorage
               /\ alertMsg' = alertMsg]_vars

\* a correct answer has been checked while the storage throws
C14_Witness ==
    /\ ~storageAvailable
    /\ showAnswer
    /\ view = "question"
    /\ Len(quizResults) = 1
    /\ score = 1
    /\ HasQuestion
    /\ AttemptsOf(questionHistory, questions[currentIndex + 1].id) = 1
    /\ localStorage = NoItem


(***************************************************************************)
(* The results sequence (Spec, SpecUI)                                     *)
(***************************************************************************)
\* C18 as stated: in every state of a session with N questions the results
\* sequence has at most N entries and score <= N, so that the raw percentage
\* computed at finalize lies in [0,100] and the scaled score in [0,1000].
C18_ResultsBoundedBySession ==
    /\ quizStarted => Len(quizResults) <= Len(questions) /\ score <= Len(questions)
    /\ (report.shown /\ ~report.isNaN)
        => /\ report.rawPercentage \in 0..100
           /\ report.scaledScore \in 0..1000

\* C19 as stated: after a checkAnswer performed at position p, results[p] is
\* the correctness of that check, in every order of visiting and checking.
C19_ResultsIndexedByPosition ==
    [][(HasQuestion /\ checkAnswer)
        => /\ Len(quizResults') > currentIndex
           /\ quizResults'[currentIndex + 1]
                = IsCorrect(userAnswers, questions[currentIndex + 1])]_vars


\* C20: in every state score is the number of true entries of results;
\* checkAnswer appends exactly one entry and increments score by 1 iff that
\* entry is true; start (one that is not refused with the alert) and reset
\* clear both together; no other operation changes either.
C20_ScoreCountsTrueResults ==
    /\ [](score = CountTrue(quizResults))
    /\ [][/\ (HasQuestion /\ checkAnswer)
              => \E entry \in BOOLEAN :
                    /\ quizResults' = Append(quizResults, entry)
                    /\ score' = score + (IF entry THEN 1 ELSE 0)
          /\ (reset \/ (startQuiz /\ alertMsg' = ""))
              => quizResults' = << >> /\ score' = 0
          /\ (score' # score \/ quizResults' # quizResults)
              => \/ HasQuestion /\ checkAnswer
                 \/ startQuiz
                 \/ reset]_vars

\* two checks, one right and one wrong
C20_Witness ==
    /\ Len(quizResults) = 2
    /\ score = 1
    /\ \E i \in 1..2 : ~quizResults[i]
    /\ showAnswer


(***************************************************************************)
(* The completed session (SpecUI)                                          *)
(***************************************************************************)
\* C21 as stated: once next at the last index has shown the results, no
\* operation other than reset or a new start changes currentIndex, the
\* sub-state, userAnswers, results, score or the question history.
C21_CompleteIsTerminal ==
    [][(view = "results" /\ ~reset /\ ~startQuiz /\ ~Reload)
        => UNCHANGED <<currentIndex, showAnswer, userAnswers, quizResults, score,
                       questionHistory>>]_vars


(***************************************************************************)
(* The category scores of the results page (Spec)                          *)
(***************************************************************************)
RECURSIVE SumOver(_, _)
\* the sum of f[k] over a finite set of indices
SumOver(f, indices) ==
    IF indices = {} THEN 0
    ELSE LET k == CHOOSE x \in indices : TRUE
         IN  f[k] + SumOver(f, indices \ {k})

\* the first position of a category in the session
FirstPosition(qs, category) ==
    CHOOSE i \in 1..Len(qs) :
        /\ qs[i].category = category
        /\ \A j \in 1..(i - 1) : qs[j].category # category

\* the session questions of a category that some check found correct
CheckedCorrect(category) ==
    {i \in 1..Len(questions) :
        /\ questions[i].category = category
        /\ HasKey(questionHistory, questions[i].id)
        /\ questionHistory[questions[i].id].correct >= 1}

\* C22 as stated: on the results page the category scores have one entry per
\* category of the session, in order of first appearance; total is the number
\* of session questions of the category, correct counts only questions of the
\* category whose check was correct, correct <= total, the totals sum to N and
\* the corrects sum to the number of true entries of results.
C22_CategoryScoresMatchChecks ==
    view = "results"
    => LET scores == calculateCategoryScores(questions, quizResults)
           slots == 1..Len(scores)
       IN  /\ {scores[k].name : k \in slots} = {questions[i].category : i \in 1..Len(questions)}
           /\ \A k, l \in slots :
                k < l => FirstPosition(questions, scores[k].name)
                            < FirstPosition(questions, scores[l].name)
           /\ \A k \in slots :
                /\ scores[k].total
                     = Cardinality({i \in 1..Len(questions) :
                                        questions[i].category = scores[k].name})
                /\ scores[k].correct <= Cardinality(CheckedCorrect(scores[k].name))
                /\ scores[k].correct <= scores[k].total
           /\ SumOver([k \in slots |-> scores[k].total], slots) = Len(questions)
           /\ SumOver([k \in slots |-> scores[k].correct], slots) = CountTrue(quizResults)


(***************************************************************************)
(* The mastery tracker (SpecHistory)                                       *)
(***************************************************************************)
\* C23: starting from an empty history, mastered holds iff correct >= 3 and
\* incorrect = 0 for every question in every state; so after one incorrect
\* attempt a question is never classified mastered again, whatever number of
\* correct attempts follows.
C23_MasteryNeverRegained ==
    /\ [](\A id \in DOMAIN questionHistory :
            /\ questionHistory[id].mastered
                <=> (questionHistory[id].correct >= 3 /\ questionHistory[id].incorrect = 0)
            /\ questionHistory[id].incorrect >= 1
                => getQuestionMasteryStatus(questionHistory, id) # "mastered")
    /\ [][\A id \in DOMAIN questionHistory, isCorrect \in BOOLEAN :
            (questionHistory[id].incorrect >= 1 /\ recordAttempt(id, isCorrect))
                => /\ questionHistory'[id].incorrect >= 1
                   /\ getQuestionMasteryStatus(questionHistory', id) # "mastered"]_vars

\* one incorrect attempt, then correct ones up to a full retention score
C23_Witness ==
    \E id \in DOMAIN questionHistory :
        /\ questionHistory[id].incorrect = 1
        /\ questionHistory[id].correct = 4
        /\ questionHistory[id].retentionScore = 100
        /\ ~questionHistory[id].mastered
        /\ getQuestionMasteryStatus(questionHistory, id) = "learning"


(***************************************************************************)
(* Moving through the session                                              *)
(***************************************************************************)
\* C24: from any position p of a running session of N questions, repeated
\* nextQuestion (without prevQuestion, reset or startQuiz) reaches the results
\* after exactly N - p calls: each call before the last advances the position
\* by exactly 1 and hides the answer, and the results are entered only from
\* position N - 1.
C24_NextReachesResults ==
    /\ [][NextOnPage
            => IF Len(questions) - currentIndex > 1
               THEN /\ currentIndex' = currentIndex + 1
                    /\ ~showAnswer'
                    /\ view' = "question"
               ELSE /\ currentIndex = Len(questions) - 1
                    /\ currentIndex' = currentIndex
                    /\ view' = "results"]_vars
    /\ [][(view # "results" /\ view' = "results")
            => (NextOnPage /\ currentIndex = Len(questions) - 1)]_vars
    /\ \A p \in 0..(NumQuestions - 1) :
            (quizStarted /\ view = "question" /\ currentIndex = p)
                ~> (view = "results" /\ currentIndex = Len(questions) - 1)

\* the results of a two-question session, entered from the last position
C24_Witness ==
    /\ view = "results"
    /\ Len(questions) = 2
    /\ currentIndex = 1
    /\ report.shown


\* C25: prevQuestion at a position > 0 decrements the position by exactly 1
\* and hides the answer, even of a question checked before, and keeps
\* userAnswers, results, score and the question history; at position 0 it
\* changes nothing at all.
C25_PrevFrame ==
    [][prevQuestion
        => IF currentIndex > 0
           THEN /\ currentIndex' = currentIndex - 1
                /\ ~showAnswer'
                /\ UNCHANGED <<userAnswers, quizResults, score, questionHistory>>
           ELSE UNCHANGED vars]_vars

\* back on the first question, which was checked before: its answer is hidden
\* again and its result and history are still there
C25_Witness ==
    /\ quizStarted /\ view = "question"
    /\ Len(questions) = 2
    /\ currentIndex = 0
    /\ ~showAnswer
    /\ Len(quizResults) = 1
    /\ HasKey(userAnswers, questions[1].id)
    /\ HasKey(questionHistory, questions[1].id)


(***************************************************************************)
(* The question history and its persistence                                *)
(***************************************************************************)
\* C26: the question history is changed only by checkAnswer: startQuiz,
\* selectAnswer, nextQuestion, prevQuestion, reset and reviewAnswers leave the
\* whole mapping unchanged; an entry is created only by the first checkAnswer
\* of its question id, is never removed, and its attempts never decrease, from
\* one session to the next.
C26_HistoryChangedByCheckOnly ==
    /\ [][(startQuiz \/ (\E l \in Letters : selectAnswer(l)) \/ nextQuestion
            \/ prevQuestion \/ reset \/ reviewAnswers)
            => questionHistory' = questionHistory]_vars
    /\ [][questionHistory' # questionHistory
            => /\ HasQuestion /\ checkAnswer
               /\ DOMAIN questionHistory'
                    = DOMAIN questionHistory \cup {questions[currentIndex + 1].id}
               /\ \A id \in DOMAIN questionHistory' \ DOMAIN questionHistory :
                    questionHistory'[id].attempts = 1]_vars
    /\ [][\A id \in DOMAIN questionHistory :
            /\ id \in DOMAIN questionHistory'
            /\ questionHistory'[id].attempts >= questionHistory[id].attempts]_vars

\* a question checked in one session and again in the next one
C26_Witness ==
    /\ quizStarted
    /\ Len(quizResults) = 1
    /\ \E id \in DOMAIN questionHistory : questionHistory[id].attempts = 2


\* the counters of a question, 0 while it has no history
CountersOf(map, id) ==
    IF HasKey(map, id) THEN map[id] ELSE [attempts |-> 0, correct |-> 0, incorrect |-> 0]

\* C27: for every history reachable from the empty mapping by recordAttempt
\* calls: attempts >= 1, correct >= 0, incorrect >= 0, correct <= attempts and
\* attempts = correct + incorrect; each call increases attempts by exactly 1
\* and exactly one of correct and incorrect by 1.
C27_CountersConsistent ==
    /\ [](\A id \in DOMAIN questionHistory :
            /\ questionHistory[id].attempts >= 1
            /\ questionHistory[id].correct >= 0
            /\ questionHistory[id].incorrect >= 0
            /\ questionHistory[id].correct <= questionHistory[id].attempts
            /\ questionHistory[id].attempts
                 = questionHistory[id].correct + questionHistory[id].incorrect)
    /\ [][\A id \in 1..NumQuestions, isCorrect \in BOOLEAN :
            recordAttempt(id, isCorrect)
            => LET old == CountersOf(questionHistory, id)
                   new == questionHistory'[id]
               IN  /\ new.attempts = old.attempts + 1
                   /\ \/ new.correct = old.correct + 1 /\ new.incorrect = old.incorrect
                      \/ new.correct = old.correct /\ new.incorrect = old.incorrect + 1]_vars

\* a history with attempts of both kinds
C27_Witness ==
    \E id \in DOMAIN questionHistory :
        /\ questionHistory[id].attempts = 5
        /\ questionHistory[id].correct = 2
        /\ questionHistory[id].incorrect = 3


\* C28: while the storage is available, after every checkAnswer the stored
\* mapping equals the question history in memory, so the history loaded at the
\* next start-up is the history at the end of the previous run; when the
\* storage is unavailable, or holds no item, the loaded history is empty.
C28_StoredHistoryIsMemory ==
    /\ [](storageAvailable
            => loadHistory(localStorage, storageAvailable) = questionHistory)
    /\ [][(storageAvailable /\ HasQuestion /\ checkAnswer)
            => /\ localStorage'.present
               /\ Parse(localStorage') = questionHistory']_vars
    /\ [][Reload
            => questionHistory'
                = IF storageAvailable /\ localStorage.present
                  THEN questionHistory ELSE EmptyMap]_vars

\* the page was loaded again and the history of the previous run is back
C28_Witness ==
    /\ ~initDone
    /\ storageAvailable
    /\ localStorage.present
    /\ questionHistory # EmptyMap
    /\ \E id \in DOMAIN questionHistory : questionHistory[id].attempts = 2


\* C29: for every pool of distinct questions and every target T the exam
\* selection returns exactly min(T, |pool|) questions, each of them a member
\* of the pool and none of them twice, also when an official category is
\* short and the fill draws from the questions not selected yet, those of
\* other categories included.
C29_SelectionWithinPool ==
    SelectTestCalled
    => /\ Len(call.result) = Min(call.targetTotal, Len(call.availableQuestions))
       /\ \A k \in 1..Len(call.result) :
            Includes(call.availableQuestions, call.result[k])
       /\ \A k, l \in 1..Len(call.result) :
            k # l => call.result[k].id # call.result[l].id

\* one Envisioning question where two are wanted: three of the four questions
\* of another category fill the selection up to T = 4
C29_Witness ==
    /\ SelectTestCalled
    /\ call.targetTotal = 4
    /\ Len(call.availableQuestions) = 5
    /\ CountOf(call.availableQuestions, Envisioning) = 1
    /\ CountOf(call.availableQuestions, OtherCategory) = 4
    /\ CountOf(call.result, OtherCategory) = 3
    /\ Len(call.result) = 4


(***************************************************************************)
(* The mastery status (SpecClassify)                                       *)
(***************************************************************************)
\* C30: the status is a total function of the history with exactly one value,
\* the checks applied in this order: no history -> unseen; else mastered and
\* retentionScore >= 70 -> mastered; else incorrect > correct or
\* retentionScore < 50 -> weak; else learning.  A history with mastered = true
\* and retentionScore >= 70 is never reported weak.
C30_StatusInOrder ==
    call.fn = "getQuestionMasteryStatus"
    => LET seen == HasKey(call.questionHistory, call.questionId)
           history == call.questionHistory[call.questionId]
       IN  /\ call.result \in {"unseen", "mastered", "weak", "learning"}
           /\ call.result = "unseen" <=> ~seen
           /\ seen =>
                /\ call.result = "mastered"
                    <=> (history.mastered /\ history.retentionScore >= 70)
                /\ call.result = "weak"
                    <=> /\ ~(history.mastered /\ history.retentionScore >= 70)
                        /\ (history.incorrect > history.correct
                            \/ history.retentionScore < 50)
                /\ call.result = "learning"
                    <=> /\ ~(history.mastered /\ history.retentionScore >= 70)
                        /\ history.incorrect <= history.correct
                        /\ history.retentionScore >= 50

\* a mastered record with more incorrect than correct attempts is reported
\* mastered, not weak
C30_Witness ==
    /\ call.fn = "getQuestionMasteryStatus"
    /\ HasKey(call.questionHistory, 1)
    /\ call.questionHistory[1].mastered
    /\ call.questionHistory[1].retentionScore = 70
    /\ call.questionHistory[1].incorrect > call.questionHistory[1].correct
    /\ call.result = "mastered"


(***************************************************************************)
(* The mastery statistics (SpecStats)                                      *)
(***************************************************************************)
MasteryStats == calculateMasteryStats(allQuestions, questionHistory)

\* C31: in every state the mastery statistics partition the bank: mastered +
\* weak + learning + unseen = total = the number of questions of the bank, and
\* unseen is the number of bank questions never checked: all of them while
\* nothing is recorded, one less with the first recorded check of a question,
\* and the same after any further check of it.
C31_StatsPartitionBank ==
    /\ [](/\ MasteryStats.mastered + MasteryStats.weak + MasteryStats.learning
                + MasteryStats.unseen = MasteryStats.total
          /\ MasteryStats.total = Len(allQuestions)
          /\ questionHistory = EmptyMap => MasteryStats.unseen = Len(allQuestions))
    /\ [][\A i \in 1..Len(allQuestions), isCorrect \in BOOLEAN :
            recordAttempt(allQuestions[i].id, isCorrect)
            => MasteryStats'.unseen
                = MasteryStats.unseen
                    - (IF HasKey(questionHistory, allQuestions[i].id) THEN 0 ELSE 1)]_vars

\* one question of each status
C31_Witness ==
    /\ MasteryStats.total = 4
    /\ MasteryStats.mastered = 1
    /\ MasteryStats.weak = 1
    /\ MasteryStats.learning = 1
    /\ MasteryStats.unseen = 1


(***************************************************************************)
(* Selecting answers (Spec)                                                *)
(***************************************************************************)
\* the letters stored for a multiple-choice question, none before the first
\* selection
StoredLetters(answers, id) ==
    IF HasKey(answers, id) THEN LetterSet(answers[id]) ELSE {}

\* C32: while the answer of the current question is hidden: on a
\* multiple-choice question selectAnswer(L) adds L to the stored selection if
\* absent and removes it if present (so two selectAnswer(L) in a row restore
\* the stored set) and the selection never holds a letter twice; on a
\* single-choice question the stored answer becomes exactly L whatever was
\* stored before; the answers stored for other question ids are unchanged.
C32_SelectToggles ==
    [][\A L \in Letters :
        (~showAnswer /\ HasQuestion /\ selectAnswer(L))
        => LET question == questions[currentIndex + 1]
               old == StoredLetters(userAnswers, question.id)
           IN  /\ HasKey(userAnswers', question.id)
               /\ IF question.isMultipleChoice
                  THEN /\ LetterSet(userAnswers'[question.id])
                            = IF L \in old THEN old \ {L} ELSE old \cup {L}
                       /\ \A i, j \in 1..Len(userAnswers'[question.id]) :
                            i # j => userAnswers'[question.id][i]
                                        # userAnswers'[question.id][j]
                  ELSE userAnswers'[question.id] = L
               /\ DOMAIN userAnswers' = DOMAIN userAnswers \cup {question.id}
               /\ \A id \in DOMAIN userAnswers \ {question.id} :
                    userAnswers'[id] = userAnswers[id]]_vars


\* the answer of the multiple-choice question was selected and deselected,
\* which leaves an empty selection, next to the stored answer of question 1
C32_Witness ==
    /\ quizStarted /\ ~showAnswer /\ HasQuestion
    /\ questions[currentIndex + 1].isMultipleChoice
    /\ HasKey(userAnswers, questions[currentIndex + 1].id)
    /\ userAnswers[questions[currentIndex + 1].id] = << >>
    /\ \E id \in DOMAIN userAnswers : id # questions[currentIndex + 1].id


(***************************************************************************)
(* Discarding the session (Spec)                                           *)
(***************************************************************************)
\* C33: reset leads to the setup page and discards the session: afterwards
\* quizStarted is false, currentIndex = 0, userAnswers and results are empty,
\* score = 0 and showAnswer is false; and no operation other than startQuiz
\* brings back a running session showing the questions of the discarded one:
\* a question page is shown only while quizStarted, and only startQuiz sets
\* quizStarted.
C33_ResetDiscardsSession ==
    /\ [][reset
            => /\ ~quizStarted'
               /\ currentIndex' = 0
               /\ userAnswers' = EmptyMap
               /\ quizResults' = << >>
               /\ score' = 0
               /\ ~showAnswer'
               /\ view' = "setup"]_vars
    /\ [](view = "question" => quizStarted)
    /\ [][(~quizStarted /\ quizStarted') => startQuiz]_vars
    /\ [][(~quizStarted
            /\ (nextQuestion \/ prevQuestion \/ reviewAnswers \/ checkAnswer
                \/ \E l \in Letters : selectAnswer(l)))
            => (~quizStarted' /\ view' # "question")]_vars

\* after reset of a two-question session nextQuestion has moved the position
\* on the questions left behind; the page is still the setup page
C33_Witness ==
    /\ ~quizStarted
    /\ view = "setup"
    /\ Len(questions) = 2
    /\ currentIndex = 1
    /\ quizResults = << >>

====
